---- MODULE Spec2Model ----
(***************************************************************************)
(* A model of maxpoletaev/hosts (hosts.go): a command-line utility that    *)
(* reads the hosts file, applies one command and writes the file back.     *)
(*                                                                         *)
(* Text is modelled as a sequence of one-character strings, so that        *)
(* splitting, trimming, field extraction and rendering are computed the    *)
(* way the Go code computes them.  A parsed file is a sequence of entries  *)
(* (Go: []interface{}); an entry is a string (comment, blank or malformed  *)
(* row), a Host, or -- produced only by cmdRemoveIP -- a nested slice.     *)
(***************************************************************************)
EXTENDS Integers, Sequences, FiniteSets

VARIABLES
    file,       \* contents of the file named by HostsFile
    readable,   \* whether ioutil.ReadFile(HostsFile) succeeds
    DebugFlag,  \* the --debug flag of the last invocation
    cmd,        \* the command of the last invocation ("none" before any)
    args,       \* the positional arguments of the last invocation
    hosts,      \* the in-memory []interface{} at the end of the last handler
    stdout,     \* what the last invocation printed to standard output
    exit,       \* exit status of the last invocation
    prevFile,   \* contents of the file when the last invocation started
    n           \* number of invocations so far

vars == <<file, readable, DebugFlag, cmd, args, hosts, stdout, exit, prevFile, n>>

----------------------------------------------------------------------------
(* Bounds of the model *)

MaxLines == 2
MaxSteps == 2

----------------------------------------------------------------------------
(* Characters and strings *)

NL  == "\n"
TAB == "\t"
SP  == " "

IsSpace(c) == c \in {" ", "\t", "\r"}

HasPrefix(s, c) == Len(s) > 0 /\ s[1] = c

RECURSIVE TrimLeft(_)
TrimLeft(s) == IF s # <<>> /\ IsSpace(Head(s)) THEN TrimLeft(Tail(s)) ELSE s

RECURSIVE TrimRight(_)
TrimRight(s) ==
    IF s # <<>> /\ IsSpace(s[Len(s)])
    THEN TrimRight(SubSeq(s, 1, Len(s) - 1))
    ELSE s

TrimSpace(s) == TrimRight(TrimLeft(s))

RECURSIVE SplitFrom(_, _, _)
SplitFrom(s, i, cur) ==
    IF i > Len(s) THEN <<cur>>
    ELSE IF s[i] = NL THEN <<cur>> \o SplitFrom(s, i + 1, <<>>)
    ELSE SplitFrom(s, i + 1, Append(cur, s[i]))

\* strings.Split(contents, "\n"): always at least one row
Split(s) == SplitFrom(s, 1, <<>>)

RECURSIVE FieldsFrom(_, _, _)
FieldsFrom(s, i, cur) ==
    LET done == IF cur = <<>> THEN <<>> ELSE <<cur>>
    IN  IF i > Len(s) THEN done
        ELSE IF IsSpace(s[i]) THEN done \o FieldsFrom(s, i + 1, <<>>)
        ELSE FieldsFrom(s, i + 1, Append(cur, s[i]))

\* strings.Fields(row): the maximal runs of non-space characters
Fields(s) == FieldsFrom(s, 1, <<>>)

RECURSIVE Join(_, _)
Join(elems, sep) ==
    IF elems = <<>> THEN <<>>
    ELSE IF Len(elems) = 1 THEN elems[1]
    ELSE elems[1] \o sep \o Join(Tail(elems), sep)

----------------------------------------------------------------------------
(* Entries of the parsed file *)

StringEntry(row) == [type |-> "string", v |-> row, IP |-> <<>>, Hostnames |-> <<>>]

Host(ip, hostnames) == [type |-> "Host", v |-> <<>>, IP |-> ip, Hostnames |-> hostnames]

\* the []interface{} value that cmdRemoveIP stores as one element; no code
\* path looks inside it, so its contents are not kept
SliceEntry == [type |-> "slice", v |-> <<>>, IP |-> <<>>, Hostnames |-> <<>>]

IsHost(e) == e.type = "Host"

----------------------------------------------------------------------------
(* ReadHosts *)

ParseRow(raw) ==
    LET row == TrimSpace(raw)
    IN  IF HasPrefix(row, "#") \/ row = <<>> THEN StringEntry(row)
        ELSE LET fields == Fields(row)
             IN  IF Len(fields) < 2 THEN StringEntry(row)
                 ELSE Host(fields[1], Tail(fields))

ReadHosts(contents) ==
    LET rows == Split(contents)
    IN  [i \in 1..Len(rows) |-> ParseRow(rows[i])]

----------------------------------------------------------------------------
(* Rendering *)

RenderRow(h) == h.IP \o <<TAB>> \o Join(h.Hostnames, <<SP>>) \o <<NL>>

RenderEntry(e) ==
    CASE e.type = "string" -> e.v
      [] e.type = "Host"   -> RenderRow(e)
      [] OTHER             -> <<>>

RECURSIVE RenderHosts(_)
RenderHosts(hs) ==
    IF hs = <<>> THEN <<>> ELSE RenderEntry(Head(hs)) \o RenderHosts(Tail(hs))

RECURSIVE RenderHostsWithoutComments(_)
RenderHostsWithoutComments(hs) ==
    IF hs = <<>> THEN <<>>
    ELSE (IF IsHost(Head(hs)) THEN RenderRow(Head(hs)) ELSE <<>>)
         \o RenderHostsWithoutComments(Tail(hs))

----------------------------------------------------------------------------
(* Helpers of the commands *)

Max(S) == CHOOSE x \in S : \A y \in S : y <= x

RECURSIVE uniqueFrom(_, _, _)
uniqueFrom(s, i, seen) ==
    IF i > Len(s) THEN <<>>
    ELSE IF s[i] \in seen THEN uniqueFrom(s, i + 1, seen)
    ELSE <<s[i]>> \o uniqueFrom(s, i + 1, seen \cup {s[i]})

uniqueStrings(s) == uniqueFrom(s, 1, {})

\* removeIndex is overwritten by every match, so the LAST match is removed
removeHostname(hostnames, remove) ==
    LET matches == {i \in 1..Len(hostnames) : hostnames[i] = remove}
    IN  IF matches = {} THEN hostnames
        ELSE LET removeIndex == Max(matches)
             IN  SubSeq(hostnames, 1, removeIndex - 1)
                 \o SubSeq(hostnames, removeIndex + 1, Len(hostnames))

----------------------------------------------------------------------------
(* WriteHosts: the new file contents and what is printed *)

\* a WriteHosts that forgets the early return of debug mode
WriteHostsAlways(hs, debug, contents) ==
    [file |-> RenderHosts(hs), stdout |-> IF debug THEN RenderHosts(hs) ELSE <<>>]

WriteHosts(hs, debug, contents) ==
    IF debug
    THEN [file |-> contents, stdout |-> RenderHosts(hs)]
    ELSE [file |-> RenderHosts(hs), stdout |-> <<>>]

----------------------------------------------------------------------------
(* cmdAddHost: the loop over hosts and the append that follows it *)

RECURSIVE AddScan(_, _, _, _)
AddScan(hs, i, ip, hostnames) ==
    IF i > Len(hs)
    THEN Append(hs, Host(ip, uniqueStrings(hostnames)))
    ELSE IF IsHost(hs[i]) /\ hs[i].IP = ip
    THEN [hs EXCEPT ![i] = Host(hs[i].IP, uniqueStrings(hs[i].Hostnames \o hostnames))]
    ELSE AddScan(hs, i + 1, ip, hostnames)

\* an add loop without the break: every Record with the ip is merged into
RECURSIVE AddScanNoBreak(_, _, _, _)
AddScanNoBreak(hs, i, ip, hostnames) ==
    IF i > Len(hs) THEN hs
    ELSE IF IsHost(hs[i]) /\ hs[i].IP = ip
    THEN AddScanNoBreak(
            [hs EXCEPT ![i] = Host(hs[i].IP, uniqueStrings(hs[i].Hostnames \o hostnames))],
            i + 1, ip, hostnames)
    ELSE AddScanNoBreak(hs, i + 1, ip, hostnames)

AddHostNoBreak(hs, ip, hostnames) ==
    IF \E i \in 1..Len(hs) : IsHost(hs[i]) /\ hs[i].IP = ip
    THEN AddScanNoBreak(hs, 1, ip, hostnames)
    ELSE Append(hs, Host(ip, uniqueStrings(hostnames)))

AddHost(hs, ip, hostnames) == AddScan(hs, 1, ip, hostnames)

----------------------------------------------------------------------------
(* cmdResolve: the text printed *)

Contains(hostnames, name) == \E k \in 1..Len(hostnames) : hostnames[k] = name

RECURSIVE ResolveScan(_, _, _)
ResolveScan(hs, i, searchHostname) ==
    IF i > Len(hs) THEN <<>>
    ELSE IF IsHost(hs[i]) /\ Contains(hs[i].Hostnames, searchHostname)
    THEN hs[i].IP \o <<NL>>
    ELSE ResolveScan(hs, i + 1, searchHostname)

\* a lookup that scans from the end: the last match wins
RECURSIVE ResolveScanBack(_, _, _)
ResolveScanBack(hs, i, searchHostname) ==
    IF i < 1 THEN <<>>
    ELSE IF IsHost(hs[i]) /\ Contains(hs[i].Hostnames, searchHostname)
    THEN hs[i].IP \o <<NL>>
    ELSE ResolveScanBack(hs, i - 1, searchHostname)

ResolveLast(hs, searchHostname) == ResolveScanBack(hs, Len(hs), searchHostname)

Resolve(hs, searchHostname) == ResolveScan(hs, 1, searchHostname)

----------------------------------------------------------------------------
(* cmdRemoveIP: the loop from the last index down to the first.           *)
(* append(hosts[:i], hosts[i+1:]) has no "..." after its second argument, *)
(* so the tail is appended as ONE element of type []interface{}: the      *)
(* result is hosts[:i] followed by that single nested slice.              *)

RECURSIVE RemoveIPScan(_, _, _)
RemoveIPScan(hs, i, ip) ==
    IF i < 1 THEN hs
    ELSE IF IsHost(hs[i]) /\ hs[i].IP = ip
    THEN RemoveIPScan(Append(SubSeq(hs, 1, i - 1), SliceEntry), i - 1, ip)
    ELSE RemoveIPScan(hs, i - 1, ip)

RemoveIP(hs, ip) == RemoveIPScan(hs, Len(hs), ip)

----------------------------------------------------------------------------
(* cmdRemoveHost: the loop from the last index down to the first *)

RECURSIVE RemoveHostnames(_, _)
RemoveHostnames(hostnames, names) ==
    IF names = <<>> THEN hostnames
    ELSE RemoveHostnames(removeHostname(hostnames, Head(names)), Tail(names))

\* a removal that stores the Record back even when it has no hostname left
StoreOrDeleteKeep(hs, i, rest) == [hs EXCEPT ![i] = Host(hs[i].IP, rest)]

StoreOrDelete(hs, i, rest) ==
    IF Len(rest) > 0
    THEN [hs EXCEPT ![i] = Host(hs[i].IP, rest)]
    ELSE SubSeq(hs, 1, i - 1) \o SubSeq(hs, i + 1, Len(hs))

RECURSIVE RemoveHostScan(_, _, _)
RemoveHostScan(hs, i, names) ==
    IF i < 1 THEN hs
    ELSE IF IsHost(hs[i])
    THEN RemoveHostScan(StoreOrDelete(hs, i, RemoveHostnames(hs[i].Hostnames, names)),
                        i - 1, names)
    ELSE RemoveHostScan(hs, i - 1, names)

RemoveHost(hs, names) == RemoveHostScan(hs, Len(hs), names)

----------------------------------------------------------------------------
(* Inputs *)

IPs == {<<"1">>, <<"2">>}

A == <<"a">>
B == <<"b">>

\* hostname lists a command line may carry (at least one hostname); ips and
\* hostnames are non-empty tokens without blanks
HostnameArgs == {<<A>>, <<B>>, <<A, B>>, <<A, A>>}

\* rows an initial file is made of
Lines ==
    { <<>>,                                   \* blank
      <<"#", "c">>,                           \* comment
      <<"x">>,                                \* one field only
      <<"1", TAB, "a">>,
      <<"1", TAB, "a", SP, "b">>,
      <<"2", TAB, "a">>,
      <<"1", SP, "a", SP, "a">>,              \* a hostname written twice
      <<SP, "2", SP, SP, "b", TAB>> }         \* surrounding and repeated blanks

FileOf(ls, terminated) ==
    Join(ls, <<NL>>) \o (IF terminated THEN <<NL>> ELSE <<>>)

InitialFiles ==
    { FileOf(ls, t) : ls \in UNION {[1..k -> Lines] : k \in 0..MaxLines},
                      t \in BOOLEAN }

----------------------------------------------------------------------------
(* The state machine: one action per command, each a whole invocation *)

Init ==
    /\ file \in InitialFiles
    /\ readable \in BOOLEAN
    /\ (~readable => file = <<>>)
    /\ DebugFlag = FALSE
    /\ cmd = "none"
    /\ args = <<>>
    /\ hosts = <<>>
    /\ stdout = <<>>
    /\ exit = 0
    /\ prevFile = file
    /\ n = 0

\* the invocation's flags and arguments, common to every command
Invoke(name, a, d) ==
    /\ n < MaxSteps
    /\ n' = n + 1
    /\ cmd' = name
    /\ args' = a
    /\ DebugFlag' = d
    /\ prevFile' = file
    /\ UNCHANGED readable

\* ReadHosts: log.Fatal when the file cannot be read
Fatal ==
    /\ hosts' = <<>>
    /\ stdout' = <<>>
    /\ exit' = 1
    /\ UNCHANGED file

Mutate(hs, d) ==
    LET w == WriteHosts(hs, d, file)
    IN  /\ hosts' = hs
        /\ file' = w.file
        /\ stdout' = w.stdout
        /\ exit' = 0

Query(hs, out) ==
    /\ hosts' = hs
    /\ stdout' = out
    /\ exit' = 0
    /\ UNCHANGED file

cmdAddHost ==
    \E d \in BOOLEAN, ip \in IPs, hostnames \in HostnameArgs :
        /\ Invoke("add", <<ip>> \o hostnames, d)
        /\ IF readable THEN Mutate(AddHost(ReadHosts(file), ip, hostnames), d) ELSE Fatal

cmdResolve ==
    \E d \in BOOLEAN, searchHostname \in {A, B} :
        /\ Invoke("resolve", <<searchHostname>>, d)
        /\ IF readable
           THEN Query(ReadHosts(file), Resolve(ReadHosts(file), searchHostname))
           ELSE Fatal

cmdList ==
    \E d \in BOOLEAN :
        /\ Invoke("list", <<>>, d)
        /\ IF readable
           THEN Query(ReadHosts(file), RenderHostsWithoutComments(ReadHosts(file)))
           ELSE Fatal

cmdRemoveIP ==
    \E d \in BOOLEAN, ip \in IPs :
        /\ Invoke("rmip", <<ip>>, d)
        /\ IF readable THEN Mutate(RemoveIP(ReadHosts(file), ip), d) ELSE Fatal

cmdRemoveHost ==
    \E d \in BOOLEAN, hostnames \in HostnameArgs :
        /\ Invoke("rmhost", hostnames, d)
        /\ IF readable THEN Mutate(RemoveHost(ReadHosts(file), hostnames), d) ELSE Fatal

Next ==
    \/ cmdAddHost
    \/ cmdResolve
    \/ cmdList
    \/ cmdRemoveIP
    \/ cmdRemoveHost

Spec == Init /\ [][Next]_vars

----------------------------------------------------------------------------
(* Vocabulary of the properties *)

\* the Host File the last invocation parsed
H0 == ReadHosts(prevFile)

\* the last invocation was one of the writing commands and read the file
Mutated == cmd \in {"add", "rmip", "rmhost"} /\ exit = 0

\* the text the last writing command rendered
Written == IF DebugFlag THEN stdout ELSE file

Min(S) == CHOOSE x \in S : \A y \in S : x <= y

RecordsWithIP(hs, ip) == {i \in 1..Len(hs) : IsHost(hs[i]) /\ hs[i].IP = ip}

RecordsWithName(hs, name) ==
    {i \in 1..Len(hs) : IsHost(hs[i]) /\ \E k \in 1..Len(hs[i].Hostnames) :
                                            hs[i].Hostnames[k] = name}

\* the elements of s that do not occur earlier in s, in order
FirstOccurrences(s) ==
    LET keep == {i \in 1..Len(s) : \A j \in 1..(i - 1) : s[j] # s[i]}
        nth(k) == CHOOSE i \in keep : Cardinality({j \in keep : j <= i}) = k
    IN  [k \in 1..Cardinality(keep) |-> s[nth(k)]]

Listed(names, h) == \E k \in 1..Len(names) : names[k] = h

NotListedInArgs(h) == ~Listed(args, h)

WithoutArgs(e) ==
    IF IsHost(e) THEN Host(e.IP, SelectSeq(e.Hostnames, NotListedInArgs)) ELSE e

NotEmptied(e) == ~IsHost(e) \/ e.Hostnames # <<>>

NotTheIP(e) == ~(IsHost(e) /\ e.IP = args[1])

CanonicalRow(r) ==
    \/ r = <<>>
    \/ HasPrefix(r, "#") /\ ~IsSpace(r[Len(r)])
    \/ /\ ~HasPrefix(r, "#")
       /\ Len(Fields(r)) >= 2
       /\ r = Fields(r)[1] \o <<TAB>> \o Join(Tail(Fields(r)), <<SP>>)

\* every row is a comment, blank or an on-disk record row, each terminated
Canonical(text) ==
    LET rows == Split(text)
    IN  /\ rows[Len(rows)] = <<>>
        /\ \A i \in 1..(Len(rows) - 1) : CanonicalRow(rows[i])

\* no rendered row is an ip followed by a tab and no names
NoBareIP(t) ==
    /\ \A k \in 1..(Len(t) - 1) : ~(t[k] = TAB /\ t[k + 1] = NL)
    /\ (t # <<>> => t[Len(t)] # TAB)

----------------------------------------------------------------------------
(* Properties *)

\* C1: rmip(ip) yields the parsed sequence without the Records whose ip is
\* the given one, every other entry kept, unchanged and in order; stated on
\* what the command renders, so that only lost or altered lines refute it.
RmipKeepsTheRest ==
    (cmd = "rmip" /\ exit = 0) => Written = RenderHosts(SelectSeq(H0, NotTheIP))

\* C2: rendering the parse of a text made of comments, blank lines and
\* on-disk record rows gives the text back.
RoundTrip ==
    (readable /\ Canonical(file)) => RenderHosts(ReadHosts(file)) = file

\* C3: add(ip, names) on a Host File holding a Record with that ip replaces
\* the hostnames of the first such Record by the de-duplicated existing ++
\* names, appends nothing and leaves every other entry as it was.
AddMergesIntoFirst ==
    (cmd = "add" /\ exit = 0 /\ RecordsWithIP(H0, args[1]) # {}) =>
        LET f == Min(RecordsWithIP(H0, args[1]))
        IN  /\ Len(hosts) = Len(H0)
            /\ \A i \in 1..Len(H0) :
                  IF i = f
                  THEN hosts[i] = Host(args[1],
                                       FirstOccurrences(H0[f].Hostnames \o Tail(args)))
                  ELSE hosts[i] = H0[i]

AddMergedWitness ==
    /\ cmd = "add" /\ exit = 0
    /\ Cardinality(RecordsWithIP(H0, args[1])) >= 2
    /\ hosts # H0
    /\ Len(Tail(args)) = 2

\* C4: running the same add (same ip, same names) a second time leaves the
\* persisted Host File as the first run wrote it.
AddTwiceSameAsOnce ==
    [][(/\ cmd = "add" /\ ~DebugFlag /\ exit = 0
        /\ cmd' = "add" /\ ~DebugFlag' /\ args' = args) => file' = file]_vars

\* C5: after add, rmip or rmhost every Record has at least one hostname, and
\* the text rmhost renders has no row made of an ip, a tab and no names.
NoEmptyRecord ==
    Mutated =>
        /\ \A i \in 1..Len(hosts) : IsHost(hosts[i]) => Len(hosts[i].Hostnames) >= 1
        /\ (cmd = "rmhost" => NoBareIP(Written))

EmptiedRecordDeletedWitness ==
    /\ cmd = "rmhost" /\ exit = 0 /\ ~DebugFlag
    /\ Len(hosts) < Len(H0)
    /\ \E i \in 1..Len(hosts) : IsHost(hosts[i])

\* C6: resolve(hostname) prints the ip of the first Record, in file order,
\* that lists the hostname, prints nothing when there is none, and succeeds.
ResolveFirstMatch ==
    (cmd = "resolve" /\ readable) =>
        /\ exit = 0
        /\ LET R == RecordsWithName(H0, args[1])
           IN  IF R = {} THEN stdout = <<>>
               ELSE stdout = H0[Min(R)].IP \o <<NL>>

ResolveFirstWitness ==
    /\ cmd = "resolve" /\ exit = 0
    /\ \E i, j \in RecordsWithName(H0, args[1]) :
          i < j /\ H0[i].IP # H0[j].IP /\ stdout = H0[i].IP \o <<NL>>

\* C7: after add, rmip or rmhost on a parsed file the hostnames of each
\* Record are pairwise distinct.
HostnamesDistinct ==
    Mutated =>
        \A i \in 1..Len(hosts) : IsHost(hosts[i]) =>
            \A j, k \in 1..Len(hosts[i].Hostnames) :
                j # k => hosts[i].Hostnames[j] # hosts[i].Hostnames[k]

\* C8: the file changes only in an add, rmip or rmhost run without debug
\* mode; in debug mode such a command prints the full render and leaves the
\* file as it was.
FileWrittenOnlyByMutation ==
    [][/\ (file' # file => cmd' \in {"add", "rmip", "rmhost"} /\ ~DebugFlag')
       /\ ((cmd' \in {"add", "rmip", "rmhost"} /\ DebugFlag' /\ readable) =>
              file' = file /\ stdout' = RenderHosts(hosts'))]_vars

DryRunWitness ==
    /\ Mutated /\ DebugFlag
    /\ file = prevFile
    /\ stdout # prevFile
    /\ stdout = RenderHosts(hosts)

\* C9: after rmhost(names) no Record lists any of the names; the Records that
\* keep a hostname stay in place with the rest of their hostnames in order,
\* and the other entries are untouched.
RmhostRemovesEveryOccurrence ==
    (cmd = "rmhost" /\ exit = 0) =>
        hosts = SelectSeq([i \in 1..Len(H0) |-> WithoutArgs(H0[i])], NotEmptied)

\* C10: when no Record of the file lists h, an add of (ip, h) that wrote the
\* file is followed by a resolve of h that prints ip.
AddThenResolve ==
    [][(/\ cmd = "add" /\ ~DebugFlag /\ exit = 0 /\ Len(args) = 2
        /\ RecordsWithName(H0, args[2]) = {}
        /\ cmd' = "resolve" /\ args' = <<args[2]>>) =>
            stdout' = args[1] \o <<NL>>]_vars

====
